---- MODULE Spec2Model ----
(***************************************************************************)
(* Model of homework.py: a bot that polls the homework-review API, formats *)
(* the status of the first homework and relays it to a Telegram chat.      *)
(*                                                                         *)
(* Python values are tagged records [type, val]; a dict is a function from *)
(* its keys.  The Cyrillic literals of the source are written here in      *)
(* Latin transliteration, one literal of the model per literal of the      *)
(* source, because module text is ASCII.                                   *)
(***************************************************************************)
EXTENDS FiniteSets, Integers, Sequences, TLC

VARIABLES
    pc,                 \* position of main()
    tokens,             \* the three module globals read by check_tokens
    timestamp,          \* main: timestamp
    last_message,       \* main: last_message
    homework_statuses,  \* main: homework_statuses
    message,            \* main: message
    error,              \* the exception bound by "except Exception as error"
    pending,            \* an exception no handler caught, on its way out
    \* ---- observation of the current iteration (not program state) ----
    attempts,           \* its send_message calls: text and outcome
    fetched,            \* get_api_answer returned
    raised_by,          \* call whose exception left the try body, or "none"
    handler,            \* except clause that took that exception, or "none"
    iter_timestamp,     \* timestamp when the iteration started
    iter_last_message,  \* last_message when the iteration started
    \* ---- observation of the run (not program state) ----
    delivered,          \* text of the latest send_message call that returned
    last_call,          \* the latest of the calls requests.get and time.sleep
    watch,              \* the one text whose notifications are counted
    episode             \* the iterations and deliveries counted for it

vars == <<pc, tokens, timestamp, last_message, homework_statuses, message,
          error, pending, attempts, fetched, raised_by, handler,
          iter_timestamp, iter_last_message, delivered, last_call, watch,
          episode>>

progvars == <<tokens, timestamp, last_message, homework_statuses, message,
              error, pending>>

itervars == <<attempts, fetched, raised_by, handler, iter_timestamp,
              iter_last_message>>

runvars == <<delivered, last_call, watch, episode>>

-----------------------------------------------------------------------------
(* Bounds of the input space                                               *)

MaxHomeworks == 2

\* iterations and deliveries of the watched text are counted up to MaxCount
MaxCount == 2

-----------------------------------------------------------------------------
(* Python values                                                           *)

PyNone == [type |-> "NoneType", val |-> "None"]

PyInt(n) == [type |-> "int", val |-> n]

PyStr(s) == [type |-> "str", val |-> s]

PyList(s) == [type |-> "list", val |-> s]

PyDict(f) == [type |-> "dict", val |-> f]

EmptyDict == PyDict(<<>>)

\* bool(v)
Truthy(v) ==
    CASE v.type = "NoneType" -> FALSE
      [] v.type = "int"      -> v.val # 0
      [] v.type = "str"      -> v.val # ""
      [] v.type = "list"     -> Len(v.val) > 0
      [] v.type = "dict"     -> DOMAIN v.val # {}

\* isinstance(v, t)
IsInstance(v, t) == v.type = t

\* d.get(key, default) of a dict
DictGet(d, key, default) ==
    IF key \in DOMAIN d.val THEN d.val[key] ELSE default

\* str(type(v))
TypeStr(v) == "<class '" \o v.type \o "'>"

\* repr() of a string without single quotes
ReprSQ(s) == "'" \o s \o "'"

\* repr() of a string that holds single quotes and no double quote
ReprDQ(s) == "\"" \o s \o "\""

-----------------------------------------------------------------------------
(* Exceptions and call results                                             *)

NoError == [cls |-> "none", str |-> ""]

\* an exception object: its class and its str()
Exc(cls, s) == [cls |-> cls, str |-> s]

\* str(KeyError(m)) is repr(m)
KeyErrorSQ(m) == Exc("KeyError", ReprSQ(m))

KeyErrorDQ(m) == Exc("KeyError", ReprDQ(m))

Return(v) == [raised |-> FALSE, value |-> v, exc |-> NoError]

Raise(e) == [raised |-> TRUE, value |-> "", exc |-> e]

\* the classes caught by "except Exception" / suppress(Exception)
ExceptionClasses ==
    {"Exception", "ConnectionError", "ValueError", "TypeError", "KeyError",
     "JSONDecodeError", "ReadTimeout", "ApiTelegramException"}

IsException(e) == e.cls \in ExceptionClasses

-----------------------------------------------------------------------------
(* Module constants                                                        *)

RETRY_PERIOD == 600

HTTP_OK == 200

StartTime == 100

venv_tokens == <<"PRACTICUM_TOKEN", "TELEGRAM_TOKEN", "TELEGRAM_CHAT_ID">>

TokenNames == {venv_tokens[i] : i \in DOMAIN venv_tokens}

HOMEWORK_VERDICTS ==
    [approved  |-> "Rabota proverena: revyueru vsyo ponravilos. Ura!",
     reviewing |-> "Rabota vzyata na proverku revyuerom.",
     rejected  |-> "Rabota proverena: u revyuera est zamechaniya."]

-----------------------------------------------------------------------------
(* check_tokens                                                            *)

\* line 44 testing for None only
MissingTokensNoneOnly(env) == SelectSeq(venv_tokens, LAMBDA t : env[t] = PyNone)

\* the names of the globals that are None or empty, in venv_tokens order
MissingTokens(env) == SelectSeq(venv_tokens, LAMBDA t : ~Truthy(env[t]))

RECURSIVE Join(_, _)
\* sep.join(names)
Join(sep, names) ==
    IF names = <<>> THEN ""
    ELSE IF Len(names) = 1 THEN names[1]
    ELSE names[1] \o sep \o Join(sep, Tail(names))

check_tokens(env) ==
    IF MissingTokens(env) # <<>>
    THEN Raise(Exc("ValueError",
                   "Otsutsvuyut peremennye okruzheniya: "
                       \o Join(", ", MissingTokens(env))))
    ELSE Return("")

-----------------------------------------------------------------------------
(* check_response                                                          *)

check_response(response) ==
    IF ~IsInstance(response, "dict")
    THEN Raise(Exc("TypeError",
                   "Otvet ne soderzhit slovar " \o TypeStr(response)))
    ELSE LET homeworks == DictGet(response, "homeworks", PyNone) IN
         IF ~Truthy(homeworks)
         THEN Raise(KeyErrorSQ("V otvete otsutsvuet klyuch \"homeworks\""))
         ELSE IF ~IsInstance(homeworks, "list")
              THEN Raise(Exc("TypeError",
                             "Otvet ne soderzhit slovar "
                                 \o TypeStr(response)))
              ELSE Return("")

-----------------------------------------------------------------------------
(* parse_status                                                            *)

\* parse_status looking at status before homework_name
parse_status_status_first(homework) ==
    IF ~IsInstance(homework, "dict")
    THEN Raise(Exc("TypeError",
                   "'" \o homework.type \o "' object is not subscriptable"))
    ELSE IF ~Truthy(DictGet(homework, "status", PyNone))
    THEN Raise(KeyErrorSQ("Klyuch \"status\" otsutsvuet v domashney rabote"))
    ELSE IF "homework_name" \notin DOMAIN homework.val
    THEN Raise(KeyErrorDQ("Klyuch " \o ReprSQ("homework_name")
                              \o " otsutsvuet v domashney rabote"))
    ELSE IF homework.val["status"].val \notin DOMAIN HOMEWORK_VERDICTS
    THEN Raise(Exc("ValueError",
                   ReprSQ(homework.val["status"].val)
                       \o ". Neizvestnyy status domashney raboty"))
    ELSE Return("Izmenilsya status proverki raboty \""
                    \o homework.val["homework_name"].val \o "\". "
                    \o HOMEWORK_VERDICTS[homework.val["status"].val])

parse_status(homework) ==
    IF ~IsInstance(homework, "dict")
    THEN \* homework['homework_name'] on a non-mapping
         Raise(Exc("TypeError",
                   "'" \o homework.type \o "' object is not subscriptable"))
    ELSE IF "homework_name" \notin DOMAIN homework.val
    THEN Raise(KeyErrorDQ("Klyuch " \o ReprSQ("homework_name")
                              \o " otsutsvuet v domashney rabote"))
    ELSE IF ~Truthy(DictGet(homework, "status", PyNone))
    THEN Raise(KeyErrorSQ("Klyuch \"status\" otsutsvuet v domashney rabote"))
    ELSE IF homework.val["status"].val \notin DOMAIN HOMEWORK_VERDICTS
    THEN Raise(Exc("ValueError",
                   ReprSQ(homework.val["status"].val)
                       \o ". Neizvestnyy status domashney raboty"))
    ELSE Return("Izmenilsya status proverki raboty \""
                    \o homework.val["homework_name"].val \o "\". "
                    \o HOMEWORK_VERDICTS[homework.val["status"].val])

-----------------------------------------------------------------------------
(* The environment: what the API, the decoder and Telegram may answer      *)

TokenValues == {PyNone, PyStr(""), PyStr("secret")}

Statuses == {"", "approved", "reviewing", "rejected", "in_review"}

\* a homework record with the given fields
Homework(name, status) ==
    PyDict([homework_name |-> PyStr(name), status |-> PyStr(status)])

\* homework records: each of the two fields present or absent, the status
\* empty, known or unknown
HomeworkDicts ==
    {EmptyDict,
     PyDict([status |-> PyStr("approved")]),
     PyDict([homework_name |-> PyStr("hw1")])}
    \cup {Homework("hw1", s) : s \in Statuses}
    \cup {Homework("hw2", "approved")}

\* elements of the homeworks list: records and one non-mapping
FirstElements == HomeworkDicts \cup {PyInt(5)}

\* what follows the first element of a longer list
LaterElement == Homework("hw2", "rejected")

\* lists of 0..MaxHomeworks elements
HomeworkLists ==
    {<<>>}
    \cup {<<h>> \o [i \in 1..n |-> LaterElement] :
              h \in FirstElements, n \in 0..(MaxHomeworks - 1)}

\* values found under the key homeworks
HomeworksValues ==
    {PyNone, PyInt(0), PyStr(""), EmptyDict, PyStr("none")}
    \cup {PyList(l) : l \in HomeworkLists}

CurrentDates == {1000, 2000}

\* decoded response bodies
Payloads ==
    {PyNone, PyList(<<>>), EmptyDict, PyDict([current_date |-> 1000])}
    \cup {PyDict([homeworks |-> h]) : h \in HomeworksValues}
    \cup {PyDict([homeworks |-> h, current_date |-> d]) :
              h \in HomeworksValues, d \in CurrentDates}

\* requests.RequestException raised by requests.get
RequestErrors == {"Connection refused"}

\* status codes of the response
StatusCodes == {HTTP_OK, 503}

\* failure of homework_statuses.json()
JsonError == Exc("JSONDecodeError", "Expecting value: line 1 column 1 (char 0)")

\* outcomes of bot.send_message
SendOutcomes ==
    {NoError,
     Exc("ApiTelegramException", "Bad Request: chat not found"),
     Exc("ReadTimeout", "Read timed out.")}

\* what one HTTP exchange can come to
Replies ==
    {[kind |-> "RequestException", str |-> e, status_code |-> 0,
      json |-> Raise(JsonError)] : e \in RequestErrors}
    \cup {[kind |-> "Response", str |-> "", status_code |-> c,
           json |-> Raise(JsonError)] : c \in StatusCodes}
    \cup {[kind |-> "Response", str |-> "", status_code |-> HTTP_OK,
           json |-> Return(p)] : p \in Payloads}

-----------------------------------------------------------------------------
(* get_api_answer and send_message, given what the peer answers            *)

get_api_answer(reply) ==
    IF reply.kind = "RequestException"
    THEN Raise(Exc("ConnectionError",
                   "Endpoint API nedostupen: " \o reply.str))
    ELSE IF reply.status_code # HTTP_OK
    THEN Raise(Exc("ValueError",
                   "Oshibka pri zaprose k API: "
                       \o ToString(reply.status_code)))
    ELSE reply.json

\* bot.send_message raises or returns; nothing is caught here
send_message(outcome) ==
    IF outcome = NoError THEN Return("") ELSE Raise(outcome)

-----------------------------------------------------------------------------
(* main                                                                    *)

\* the second clause naming the exceptions of get_api_answer only
HandlerOfFetchErrors(e) ==
    IF e.cls = "ApiTelegramException" THEN "except_telegram"
    ELSE IF e.cls \in {"ConnectionError", "ValueError"} THEN "except"
    ELSE "finally"

\* the except clause, in order of appearance, that takes exception e
Handler(e) ==
    IF e.cls = "ApiTelegramException" THEN "except_telegram"
    ELSE IF IsException(e) THEN "except"
    ELSE "finally"

\* the comparison of line 147 left out
StatusIsNewAlways(msg, last) == TRUE

\* line 147: message != last_message
StatusIsNew(msg, last) == msg # last

\* the comparison of line 161 left out
ErrorIsNewAlways(msg, last) == TRUE

\* line 161: message != last_message
ErrorIsNew(msg, last) == msg # last

\* the assignment that follows the send made even when the send raised
AfterSendAlways(r, msg, last) == msg

\* the assignment that follows the send left out
AfterSendKept(r, msg, last) == last

\* lines 148-149 and 163-164: last_message = message is reached only when
\* send_message returned
AfterSend(r, msg, last) == IF r.raised THEN last ELSE msg

\* suppress() letting through everything but Telegram's own exception
SuppressesTelegramOnly(e) == e.cls = "ApiTelegramException"

\* line 162: suppress(Exception) swallows e
Suppresses(e) == IsException(e)

\* line 153 with nothing to fall back on
NextTimestampNoDefault(response, ts) == DictGet(response, "current_date", 0)

\* line 74 asking from one retry period before the cursor
FromDateEarlier(ts) == ts - RETRY_PERIOD

\* line 74: params={'from_date': timestamp}
FromDate(ts) == ts

\* the calls whose order is observed
NoCall == [call |-> "none", arg |-> 0]

\* lines 72-74: requests.get(..., params={'from_date': timestamp})
GetCall(ts) == [call |-> "get", arg |-> FromDate(ts)]

\* line 169: time.sleep(RETRY_PERIOD)
SleepCall == [call |-> "sleep", arg |-> RETRY_PERIOD]

\* the sleep at the end of the try body, not in a finally clause
LeaveSleepsAfterTryOnly(path) ==
    IF path = "try" THEN "sleep" ELSE "get_api_answer"

\* line 168: the finally clause is where the try body and both except
\* clauses end
Leave(path) == "sleep"

\* homeworks[-1] in the place of homeworks[0]
LastHomework(homeworks) == homeworks.val[Len(homeworks.val)]

\* line 146: homeworks[0]
FirstHomework(homeworks) == homeworks.val[1]

\* line 159: f'Sboy v rabote programmy: {error}'
ErrorMessage(e) == "Sboy v rabote programmy: " \o e.str

\* line 153 keeping the old cursor
NextTimestampKept(response, ts) == ts

\* line 153: homework_statuses.get('current_date', timestamp)
NextTimestamp(response, ts) == DictGet(response, "current_date", ts)

\* the calls of the try body that precede the send
Stages == {"get_api_answer", "check_response", "parse_status"}

-----------------------------------------------------------------------------
(* Observation of one text over the run.  watch names a text and what is   *)
(* counted for it:                                                         *)
(*   "status": the polls since the first record last differed from the     *)
(*             one with this status text;                                  *)
(*   "error" : the failing iterations since the error text last differed   *)
(*             from this one;                                              *)
(*   "run"   : the consecutive iterations that failed in a stage with      *)
(*             this error text.                                            *)

NoWatch == [kind |-> "none", text |-> ""]

\* len: iterations counted; sent: sends of the text that returned in them;
\* failed: the latest of them made a send of the text that raised;
\* owed: the latest send of the text in the whole run raised (kept for the
\* kinds "status" and "error" only)
NoEpisode == [len |-> 0, sent |-> 0, failed |-> FALSE, owed |-> FALSE]

\* the texts parse_status can return
StatusTexts ==
    {parse_status(h).value : h \in {g \in HomeworkDicts :
                                       ~parse_status(g).raised}}

\* the exceptions that can reach "except Exception"
Failures ==
    {get_api_answer(r).exc : r \in {q \in Replies : get_api_answer(q).raised}}
    \cup {check_response(p).exc : p \in {q \in Payloads :
                                           check_response(q).raised}}
    \cup {parse_status(h).exc : h \in {g \in FirstElements :
                                         parse_status(g).raised}}
    \cup {o \in SendOutcomes : o # NoError /\ Handler(o) = "except"}

ErrorTexts == {ErrorMessage(e) : e \in Failures}

Watches ==
    {NoWatch}
    \cup {[kind |-> "status", text |-> t] : t \in StatusTexts}
    \cup {[kind |-> k, text |-> t] : k \in {"error", "run"}, t \in ErrorTexts}

\* n more, counted up to MaxCount
Plus(c, n) == IF c + n < MaxCount THEN c + n ELSE MaxCount

-----------------------------------------------------------------------------

Init ==
    /\ pc = "check_tokens"
    /\ tokens \in [TokenNames -> TokenValues]
    /\ timestamp = 0
    /\ last_message = ""
    /\ homework_statuses = PyNone
    /\ message = ""
    /\ error = NoError
    /\ pending = NoError
    /\ attempts = <<>>
    /\ fetched = FALSE
    /\ raised_by = "none"
    /\ handler = "none"
    /\ iter_timestamp = 0
    /\ iter_last_message = ""
    /\ delivered = ""
    /\ last_call = NoCall
    /\ watch \in Watches
    /\ episode = NoEpisode

\* an exception e of call f leaves the try body
Except(f, e) ==
    /\ raised_by' = f
    /\ handler' = Handler(e)
    /\ IF Handler(e) = "finally"
       THEN /\ pc' = "sleep"
            /\ pending' = e
            /\ error' = error
       ELSE /\ pc' = Handler(e)
            /\ pending' = pending
            /\ error' = IF Handler(e) = "except" THEN e ELSE error

\* lines 133-138
CheckTokens ==
    /\ pc = "check_tokens"
    /\ IF check_tokens(tokens).raised
       THEN /\ pc' = "exit"
            /\ pending' = check_tokens(tokens).exc
            /\ UNCHANGED <<timestamp, last_message, iter_timestamp>>
       ELSE /\ pc' = "get_api_answer"
            /\ timestamp' = StartTime
            /\ last_message' = ""
            /\ iter_timestamp' = StartTime
            /\ pending' = pending
    /\ UNCHANGED <<tokens, homework_statuses, message, error, attempts,
                   fetched, raised_by, handler, iter_last_message, runvars>>

\* line 142
GetApiAnswer ==
    /\ pc = "get_api_answer"
    /\ \E reply \in Replies :
         LET r == get_api_answer(reply) IN
         /\ fetched' = ~r.raised
         /\ IF r.raised
            THEN /\ Except("get_api_answer", r.exc)
                 /\ UNCHANGED homework_statuses
            ELSE /\ homework_statuses' = r.value
                 /\ pc' = "check_response"
                 /\ UNCHANGED <<error, pending, raised_by, handler>>
    /\ last_call' = GetCall(timestamp)
    /\ UNCHANGED <<tokens, timestamp, last_message, message, attempts,
                   iter_timestamp, iter_last_message, delivered, watch,
                   episode>>

\* lines 143-145 and 150-151
CheckResponse ==
    /\ pc = "check_response"
    /\ LET r == check_response(homework_statuses) IN
       IF r.raised
       THEN Except("check_response", r.exc)
       ELSE /\ pc' = IF Truthy(DictGet(homework_statuses, "homeworks", PyNone))
                     THEN "parse_status" ELSE "advance"
            /\ UNCHANGED <<error, pending, raised_by, handler>>
    /\ UNCHANGED <<tokens, timestamp, last_message, homework_statuses,
                   message, attempts, fetched, iter_timestamp,
                   iter_last_message, runvars>>

\* lines 146-147
ParseStatus ==
    /\ pc = "parse_status"
    /\ LET homeworks == DictGet(homework_statuses, "homeworks", PyNone)
           r == parse_status(FirstHomework(homeworks)) IN
       IF r.raised
       THEN /\ Except("parse_status", r.exc)
            /\ UNCHANGED message
       ELSE /\ message' = r.value
            /\ pc' = IF StatusIsNew(r.value, last_message)
                     THEN "send_message" ELSE "advance"
            /\ UNCHANGED <<error, pending, raised_by, handler>>
    /\ UNCHANGED <<tokens, timestamp, last_message, homework_statuses,
                   attempts, fetched, iter_timestamp, iter_last_message,
                   runvars>>

\* lines 148-149
SendMessage ==
    /\ pc = "send_message"
    /\ \E outcome \in SendOutcomes :
         LET r == send_message(outcome) IN
         /\ attempts' = Append(attempts,
                               [text |-> message, ok |-> ~r.raised])
         /\ last_message' = AfterSend(r, message, last_message)
         /\ IF r.raised
            THEN /\ Except("send_message", r.exc)
                 /\ UNCHANGED delivered
            ELSE /\ delivered' = message
                 /\ pc' = "advance"
                 /\ UNCHANGED <<error, pending, raised_by, handler>>
    /\ UNCHANGED <<tokens, timestamp, homework_statuses, message, fetched,
                   iter_timestamp, iter_last_message, last_call, watch,
                   episode>>

\* line 153
AdvanceTimestamp ==
    /\ pc = "advance"
    /\ timestamp' = NextTimestamp(homework_statuses, timestamp)
    /\ pc' = Leave("try")
    /\ UNCHANGED <<tokens, last_message, homework_statuses, message, error,
                   pending, itervars, runvars>>

\* lines 155-156
ExceptTelegram ==
    /\ pc = "except_telegram"
    /\ pc' = Leave("except_telegram")
    /\ UNCHANGED <<progvars, itervars, runvars>>

\* lines 158-161, and 166 when nothing is to be sent
ExceptException ==
    /\ pc = "except"
    /\ message' = ErrorMessage(error)
    /\ IF ErrorIsNew(message', last_message)
       THEN /\ pc' = "send_error"
            /\ UNCHANGED error
       ELSE /\ pc' = Leave("except")
            /\ error' = NoError
    /\ UNCHANGED <<tokens, timestamp, last_message, homework_statuses,
                   pending, itervars, runvars>>

\* lines 162-166
SendErrorMessage ==
    /\ pc = "send_error"
    /\ \E outcome \in SendOutcomes :
         LET r == send_message(outcome) IN
         /\ attempts' = Append(attempts,
                               [text |-> message, ok |-> ~r.raised])
         /\ last_message' = AfterSend(r, message, last_message)
         /\ IF r.raised
            THEN /\ pending' = IF Suppresses(r.exc) THEN pending ELSE r.exc
                 /\ UNCHANGED delivered
            ELSE /\ delivered' = message
                 /\ UNCHANGED pending
    /\ error' = NoError
    /\ pc' = Leave("except")
    /\ UNCHANGED <<tokens, timestamp, homework_statuses, message, fetched,
                   raised_by, handler, iter_timestamp, iter_last_message,
                   last_call, watch, episode>>

-----------------------------------------------------------------------------
(* The iteration that has reached its sleep, as the observer sees it       *)

\* the homeworks list of a fetched and validated payload, else the empty list
ValidHomeworks ==
    IF fetched /\ pc # "check_response" /\ raised_by # "check_response"
    THEN DictGet(homework_statuses, "homeworks", PyList(<<>>)).val
    ELSE <<>>

\* the status text formatted in the iteration, "" if none
IterStatus ==
    IF ValidHomeworks # <<>> /\ pc # "parse_status"
       /\ raised_by # "parse_status"
    THEN IF attempts # <<>> THEN attempts[1].text ELSE message
    ELSE ""

\* the error text built in the iteration, "" if none
IterError == IF handler = "except" THEN message ELSE ""

\* the error text built for a failure of fetch, validation or formatting
StageError == IF raised_by \in Stages THEN IterError ELSE ""

\* how many send calls of the iteration carried text t
Attempts(t) == Cardinality({i \in DOMAIN attempts : attempts[i].text = t})

\* how many send calls of the iteration carrying text t returned
Deliveries(t) ==
    Cardinality({i \in DOMAIN attempts :
                    attempts[i].text = t /\ attempts[i].ok})

\* the text the iteration has, of the kind under observation
IterText ==
    CASE watch.kind = "status" -> IterStatus
      [] watch.kind = "error"  -> IterError
      [] watch.kind = "run"    -> StageError
      [] OTHER                 -> ""

\* whether the latest send of the watched text, this iteration's included,
\* raised
NextOwed ==
    IF watch.kind \in {"status", "error"} /\ Attempts(watch.text) > 0
    THEN Deliveries(watch.text) = 0
    ELSE episode.owed

\* episode once the iteration is counted in
NextEpisode ==
    IF watch.kind = "none" THEN episode
    ELSE IF IterText = watch.text
    THEN [len    |-> Plus(episode.len, 1),
          sent   |-> Plus(episode.sent, Deliveries(watch.text)),
          failed |-> \E i \in DOMAIN attempts :
                        attempts[i].text = watch.text /\ ~attempts[i].ok,
          owed   |-> NextOwed]
    ELSE IF IterText = "" /\ watch.kind # "run" THEN episode
    ELSE [NoEpisode EXCEPT !.owed = NextOwed]

\* lines 168-169, then back to line 140 unless an exception is on its way
\* out.  homework_statuses and message are written before they are read in
\* every iteration (lines 142, 146, 159), so their values end with it.
Sleep ==
    /\ pc = "sleep"
    /\ pc' = IF pending = NoError THEN "get_api_answer" ELSE "exit"
    /\ homework_statuses' = PyNone
    /\ message' = ""
    /\ attempts' = <<>>
    /\ fetched' = FALSE
    /\ raised_by' = "none"
    /\ handler' = "none"
    /\ iter_timestamp' = timestamp
    /\ iter_last_message' = last_message
    /\ episode' = NextEpisode
    /\ last_call' = SleepCall
    /\ UNCHANGED <<tokens, timestamp, last_message, error, pending,
                   delivered, watch>>

Next ==
    \/ CheckTokens
    \/ GetApiAnswer
    \/ CheckResponse
    \/ ParseStatus
    \/ SendMessage
    \/ AdvanceTimestamp
    \/ ExceptTelegram
    \/ ExceptException
    \/ SendErrorMessage
    \/ Sleep

Spec == Init /\ [][Next]_vars

\* the observer has no part in the progress of the loop and watches nothing
FairInit == Init /\ watch = NoWatch

\* one thread of control: a step that can be taken is taken
FairSpec == FairInit /\ [][Next]_vars /\ WF_vars(Next)

-----------------------------------------------------------------------------
(* Properties                                                              *)

\* a send_message call returns in this step
Delivers ==
    /\ Len(attempts') = Len(attempts) + 1
    /\ attempts'[Len(attempts')].ok

\* the text of the send_message call made in this step
SentText == attempts'[Len(attempts')].text

\* the current_date of payload p, or d when it has none
CurrentDateOr(p, d) ==
    IF p.type = "dict" /\ "current_date" \in DOMAIN p.val
    THEN p.val["current_date"] ELSE d

\* payload p is a mapping whose homeworks is the empty list
HasEmptyHomeworks(p) ==
    /\ p.type = "dict"
    /\ "homeworks" \in DOMAIN p.val
    /\ p.val["homeworks"] = PyList(<<>>)

\* C1: no two successive successful send_message calls carry the same text:
\* a send that returns never carries the text of the latest send that
\* returned before it.
C1_NoRepeatedText == [][Delivers => SentText # delivered]_vars

\* C1 witness: a poll returned the record whose text was delivered last and
\* the iteration goes on without a send.
C1_Witness ==
    /\ pc = "advance"
    /\ IterStatus # ""
    /\ IterStatus = delivered
    /\ attempts = <<>>

\* C2: an iteration whose payload is a mapping with homeworks = [] raises
\* nothing, makes no send, leaves last_message alone and ends with the
\* cursor at the payload's current_date (unchanged when it has none).
C2_EmptyListIsNoOp ==
    (pc = "sleep" /\ fetched /\ HasEmptyHomeworks(homework_statuses))
        => /\ raised_by = "none"
           /\ attempts = <<>>
           /\ last_message = iter_last_message
           /\ timestamp = CurrentDateOr(homework_statuses, iter_timestamp)

\* C3: when fetch and validation succeed and the first record formats to T,
\* then if T differs from last_message as the iteration found it, exactly
\* one send carries T, it is the first send, and if it returns then
\* last_message is T and the cursor is the payload's current_date (or
\* unchanged without one); if T equals it, no send is made and the cursor
\* is advanced all the same.
C3_StatusIteration ==
    (pc = "sleep" /\ IterStatus # "")
        => IF IterStatus # iter_last_message
           THEN /\ Attempts(IterStatus) = 1
                /\ attempts[1].text = IterStatus
                /\ attempts[1].ok =>
                      /\ last_message = IterStatus
                      /\ timestamp = CurrentDateOr(homework_statuses,
                                                   iter_timestamp)
           ELSE /\ attempts = <<>>
                /\ timestamp = CurrentDateOr(homework_statuses,
                                             iter_timestamp)

\* C3 witness: the end-to-end scenario, hw1 approved with current_date 1000,
\* delivered, and the cursor moved to 1000.
C3_Witness ==
    /\ pc = "sleep"
    /\ homework_statuses =
           PyDict([homeworks |-> PyList(<<Homework("hw1", "approved")>>),
                   current_date |-> 1000])
    /\ attempts = <<[text |-> "Izmenilsya status proverki raboty \"hw1\". "
                        \o "Rabota proverena: revyueru vsyo ponravilos. Ura!",
                     ok |-> TRUE]>>
    /\ iter_timestamp # 1000
    /\ timestamp = 1000

\* the iteration at its sleep failed in a stage with the watched error text
InWatchedRun ==
    /\ pc = "sleep"
    /\ watch.kind = "run"
    /\ StageError = watch.text

\* C4 as claimed: in a run of consecutive iterations failing in fetch,
\* validation or formatting with one error text, the first iteration makes
\* exactly one send of that text and the later ones make none.
C4_OneAttemptPerRun ==
    InWatchedRun
        => Attempts(watch.text) = IF episode.len = 0 THEN 1 ELSE 0

\* C4 amended: in such a run an iteration makes a send exactly when the
\* error text differs from last_message as the iteration found it, and then
\* one send, of that text; a send that returns makes the text last_message,
\* so that once a send of the run has returned the later iterations make
\* none; a send that raises leaves last_message alone and the next
\* iteration of the run sends again.
C4_AttemptsUntilDelivered ==
    InWatchedRun
        => /\ Len(attempts) = IF watch.text # iter_last_message THEN 1 ELSE 0
           /\ \A i \in DOMAIN attempts :
                /\ attempts[i].text = watch.text
                /\ last_message = IF attempts[i].ok THEN watch.text
                                  ELSE iter_last_message
           /\ episode.sent > 0 => attempts = <<>>
           /\ episode.failed => Len(attempts) = 1

\* C4 witness: a later iteration of a run whose text has been delivered in
\* the run makes no send.
C4_Witness ==
    /\ InWatchedRun
    /\ episode.len > 0
    /\ episode.sent > 0
    /\ attempts = <<>>

\* C5: an exception of the status send is not turned into an error message
\* and no iteration makes more than one send.
C5_SendFailureNotEscalated ==
    /\ Len(attempts) <= 1
    /\ raised_by = "send_message" => handler # "except"

\* main() is inside its while loop
InLoop == pc \notin {"check_tokens", "exit"}

\* C6: once in the loop, every iteration reaches its sleep and every sleep
\* is followed by the next fetch, whatever was raised on the way.
C6_LoopNeverExits ==
    /\ [](InLoop => <>(pc = "sleep"))
    /\ [](pc = "sleep" => <>(pc = "get_api_answer"))

\* C6 witness: the iteration is at its sleep after the send of the error
\* message raised inside the handler.
C6_Witness ==
    /\ pc = "sleep"
    /\ handler = "except"
    /\ attempts # <<>>
    /\ attempts[Len(attempts)].text = IterError
    /\ ~attempts[Len(attempts)].ok

\* C7 as claimed: while the polls keep returning the same first record its
\* status text is delivered at most once, and while the same error keeps
\* recurring its text is delivered at most once, whatever other iterations
\* come in between.
C7_OncePerEpisode ==
    watch.kind \in {"status", "error"} => episode.sent <= 1

\* C7 amended: within such a stretch the text is delivered again only after
\* another text has been delivered in between.
C7_AgainOnlyAfterAnother ==
    [][(/\ watch.kind \in {"status", "error"}
        /\ episode.sent > 0
        /\ Delivers
        /\ SentText = watch.text) => delivered # watch.text]_vars

\* C7 witness: the watched status text, delivered before while the polls
\* kept returning its record, has been delivered once more.
C7_Witness ==
    /\ pc = "sleep"
    /\ watch.kind = "status"
    /\ episode.sent > 0
    /\ IterStatus = watch.text
    /\ Deliveries(watch.text) = 1

\* the payload is a mapping holding the key homeworks
HasHomeworks(p) == p.type = "dict" /\ "homeworks" \in DOMAIN p.val

\* check_response raised an exception of class c
CheckRaised(c) ==
    /\ raised_by = "check_response"
    /\ pc = "except" => error.cls = c

\* C8: check_response fails with TypeError on a payload that is no mapping,
\* with KeyError on a mapping without homeworks, with TypeError on a mapping
\* whose homeworks is no list, and passes on every mapping whose homeworks
\* is a list.
C8_CheckResponseKinds ==
    (fetched /\ pc # "check_response")
        => IF homework_statuses.type # "dict" THEN CheckRaised("TypeError")
           ELSE IF ~HasHomeworks(homework_statuses)
           THEN CheckRaised("KeyError")
           ELSE IF homework_statuses.val["homeworks"].type # "list"
           THEN CheckRaised("TypeError")
           ELSE raised_by # "check_response"

\* parse_status raised exception e
ParseRaised(e) ==
    /\ raised_by = "parse_status"
    /\ pc = "except" => error = e

\* what C9 says of record h once parse_status has been applied to it
ParseOutcome(h) ==
    IF "homework_name" \notin DOMAIN h.val
    THEN ParseRaised(Exc("KeyError",
             "\"Klyuch 'homework_name' otsutsvuet v domashney rabote\""))
    ELSE IF "status" \notin DOMAIN h.val \/ h.val["status"].val = ""
    THEN ParseRaised(Exc("KeyError",
             "'Klyuch \"status\" otsutsvuet v domashney rabote'"))
    ELSE IF h.val["status"].val \notin {"approved", "reviewing", "rejected"}
    THEN ParseRaised(Exc("ValueError",
             "'" \o h.val["status"].val
                 \o "'. Neizvestnyy status domashney raboty"))
    ELSE /\ raised_by # "parse_status"
         /\ IterStatus = "Izmenilsya status proverki raboty \""
                            \o h.val["homework_name"].val \o "\". "
                            \o HOMEWORK_VERDICTS[h.val["status"].val]

\* C9: parse_status checks homework_name, then status present and not
\* empty, then status known, each with its own error, and otherwise returns
\* the template filled with the name and the verdict of the table; the call
\* changes neither the cursor nor last_message nor the payload.
C9_ParseStatus ==
    /\ [](  (/\ ValidHomeworks # <<>>
             /\ pc # "parse_status"
             /\ ValidHomeworks[1].type = "dict")
          => ParseOutcome(ValidHomeworks[1]))
    /\ [][pc = "parse_status"
            => UNCHANGED <<timestamp, last_message, homework_statuses,
                           tokens>>]_vars

\* C9 witness: parse_status has refused the unknown status in_review.
C9_Witness ==
    /\ pc = "except"
    /\ raised_by = "parse_status"
    /\ ValidHomeworks[1] = Homework("hw1", "in_review")
    /\ error = Exc("ValueError",
                   "'in_review'. Neizvestnyy status domashney raboty")

\* C10 as claimed: at the end of every iteration in which get_api_answer
\* returned, the cursor is the payload's current_date, or as before when
\* the payload has none.
C10_AdvancedAfterEveryFetch ==
    (pc = "sleep" /\ fetched)
        => timestamp = CurrentDateOr(homework_statuses, iter_timestamp)

\* C10 amended: that holds at the end of the iterations in which nothing
\* was raised after the fetch; when a later step raised, the cursor is as
\* the iteration found it.
C10_AdvancedAfterCleanIteration ==
    (pc = "sleep" /\ fetched)
        => timestamp = IF raised_by = "none"
                       THEN CurrentDateOr(homework_statuses, iter_timestamp)
                       ELSE iter_timestamp

\* C10 witness: an iteration in which nothing was raised has moved the
\* cursor.
C10_Witness ==
    /\ pc = "sleep"
    /\ fetched
    /\ raised_by = "none"
    /\ timestamp # iter_timestamp

\* one of the three secrets is absent or empty
SecretMissing ==
    \E t \in {"PRACTICUM_TOKEN", "TELEGRAM_TOKEN", "TELEGRAM_CHAT_ID"} :
        tokens[t] = PyNone \/ tokens[t] = PyStr("")

Sends == Len(attempts') = Len(attempts) + 1

\* C12: last_message is the text of the latest send_message call that
\* returned, the empty string before any has; it changes in no step but
\* one in which a send returns, and a send that raises leaves it alone.
C12_LastMessageIsLastDelivered ==
    /\ [](last_message = delivered)
    /\ [][last_message' # last_message => Delivers]_vars
    /\ [][(Sends /\ ~Delivers) => last_message' = last_message]_vars

\* C12 witness: after a delivery, a send of another text has raised and
\* last_message still is the delivered text.
C12_Witness ==
    /\ delivered # ""
    /\ last_message = delivered
    /\ attempts # <<>>
    /\ ~attempts[Len(attempts)].ok
    /\ attempts[Len(attempts)].text # last_message

\* the set of text t, empty when there is no text
TextIfAny(t) == IF t = "" THEN {} ELSE {t}

\* what the iteration at its sleep has to show when the first element of
\* the list, and no other, was given to parse_status with result r
FirstElementOutcome(r) ==
    IF r.raised
    THEN /\ raised_by = "parse_status"
         /\ IterError = ErrorMessage(r.exc)
         /\ \A i \in DOMAIN attempts : attempts[i].text = IterError
         /\ last_message \in {iter_last_message, IterError}
         /\ timestamp = iter_timestamp
    ELSE /\ raised_by \in {"none", "send_message"}
         /\ IterStatus = r.value
         /\ \A i \in DOMAIN attempts :
              attempts[i].text \in {r.value} \cup TextIfAny(IterError)
         /\ last_message \in {iter_last_message, r.value}
                                \cup TextIfAny(IterError)
         /\ timestamp = IF raised_by = "none"
                        THEN CurrentDateOr(homework_statuses, iter_timestamp)
                        ELSE iter_timestamp

\* C13: the text sent, the failure raised, last_message and the cursor of
\* an iteration are those that the first element of homeworks and
\* current_date give, whatever follows the first element; when the first
\* element cannot be formatted the iteration goes to the error flow and no
\* later element is formatted.
C13_FirstElementOnly ==
    (pc = "sleep" /\ ValidHomeworks # <<>>)
        => FirstElementOutcome(parse_status(ValidHomeworks[1]))

\* C13 witness: the first of two elements could not be formatted, the
\* second could, and the one send of the iteration carried the error text.
C13_Witness ==
    /\ pc = "sleep"
    /\ Len(ValidHomeworks) > 1
    /\ parse_status(ValidHomeworks[1]).raised
    /\ ~parse_status(ValidHomeworks[2]).raised
    /\ Len(attempts) = 1
    /\ attempts[1].text = ErrorMessage(parse_status(ValidHomeworks[1]).exc)

\* C14: in the loop a fetch is issued only as the first call or right
\* after a sleep, and a sleep only after the one fetch of the iteration:
\* every iteration issues one fetch and, on whatever path it takes, ends
\* with one sleep of 600 seconds.
C14_OneFetchOneSleep ==
    /\ [](InLoop =>
            IF pc = "get_api_answer"
            THEN last_call = NoCall \/ last_call = [call |-> "sleep",
                                                    arg |-> 600]
            ELSE last_call.call = "get")
    /\ [](last_call = NoCall => ~fetched /\ attempts = <<>> /\ delivered = "")
    /\ [][pc = "get_api_answer" => last_call'.call = "get"]_vars
    /\ [][pc = "sleep" => last_call' = [call |-> "sleep", arg |-> 600]]_vars
    /\ [][pc' = "get_api_answer" => pc \in {"check_tokens", "sleep"}]_vars

\* C14 witness: the next fetch is due after the sleep of an iteration that
\* went through the error flow.
C14_Witness ==
    /\ pc = "get_api_answer"
    /\ last_call.call = "sleep"
    /\ delivered \in ErrorTexts

\* the failures of fetch, validation and formatting, by what they say
StageFailures ==
    {Exc("ConnectionError", "Endpoint API nedostupen: Connection refused"),
     Exc("ValueError", "Oshibka pri zaprose k API: 503"),
     Exc("JSONDecodeError", "Expecting value: line 1 column 1 (char 0)"),
     Exc("TypeError", "Otvet ne soderzhit slovar <class 'NoneType'>"),
     Exc("TypeError", "Otvet ne soderzhit slovar <class 'list'>"),
     Exc("TypeError", "Otvet ne soderzhit slovar <class 'dict'>"),
     Exc("KeyError", "'V otvete otsutsvuet klyuch \"homeworks\"'"),
     Exc("TypeError", "'int' object is not subscriptable"),
     Exc("KeyError",
         "\"Klyuch 'homework_name' otsutsvuet v domashney rabote\""),
     Exc("KeyError", "'Klyuch \"status\" otsutsvuet v domashney rabote'"),
     Exc("ValueError", "'in_review'. Neizvestnyy status domashney raboty")}

\* C15: whatever fetch, validation or formatting raises is taken by the
\* "except Exception" clause, which builds the error text from the
\* exception's own text, sends it once if and only if it differs from
\* last_message, and goes on to the sleep and the next fetch; nothing is
\* left on its way out of the loop.
C15_SameRecoveryForEveryFailure ==
    /\ []((raised_by \in Stages /\ pc # "get_api_answer") =>
            /\ handler = "except"
            /\ pending = NoError
            /\ pc \in {"except", "send_error", "sleep"}
            /\ pc = "except" => error \in StageFailures
            /\ pc = "sleep" =>
                 /\ Len(attempts) = IF message # iter_last_message
                                    THEN 1 ELSE 0
                 /\ \A i \in DOMAIN attempts : attempts[i].text = message)
    /\ [][pc = "except" =>
            message' = "Sboy v rabote programmy: " \o error.str]_vars
    /\ [][(pc = "sleep" /\ raised_by \in Stages) =>
            pc' = "get_api_answer"]_vars

\* C15 witness: an undecodable body has made the iteration send the error
\* text built from the decoder's message.
C15_Witness ==
    /\ pc = "sleep"
    /\ raised_by = "get_api_answer"
    /\ attempts = <<[text |-> "Sboy v rabote programmy: "
                        \o "Expecting value: line 1 column 1 (char 0)",
                     ok |-> TRUE]>>

\* C16: an iteration in which the fetch, the validation, the formatting or
\* the status send raised ends with the cursor as it found it, which is
\* the from_date it fetched with and the one the next fetch is made with;
\* inside the loop the cursor is assigned only at the end of a try body in
\* which nothing was raised.
C16_CursorKeptOnFailure ==
    /\ []((pc = "sleep" /\ raised_by # "none") =>
            timestamp = iter_timestamp)
    /\ []((InLoop /\ pc # "get_api_answer") =>
            last_call = [call |-> "get", arg |-> iter_timestamp])
    /\ [][pc = "get_api_answer" =>
            last_call' = [call |-> "get", arg |-> timestamp]]_vars
    /\ [][(pc # "check_tokens" /\ timestamp' # timestamp) =>
            (pc = "advance" /\ fetched /\ raised_by = "none")]_vars

\* C16 witness: the status send raised in an iteration whose payload
\* carries another current_date, after the cursor had moved once.
C16_Witness ==
    /\ pc = "sleep"
    /\ raised_by = "send_message"
    /\ iter_timestamp # StartTime
    /\ CurrentDateOr(homework_statuses, timestamp) # timestamp

\* the iteration at its sleep has the watched text, whose latest send
\* before it raised
OwedTextAgain ==
    /\ pc = "sleep"
    /\ watch.kind \in {"status", "error"}
    /\ episode.owed
    /\ IterText = watch.text

\* C17: an iteration whose last send raised ends with last_message as it
\* found it; a text whose latest send raised is not last_message when an
\* iteration begins, and the next iteration that has this text makes one
\* send of it, whatever other texts were sent in between.
C17_FailedSendIsRetried ==
    /\ (/\ pc = "sleep"
        /\ attempts # <<>>
        /\ ~attempts[Len(attempts)].ok) => last_message = iter_last_message
    /\ (pc = "get_api_answer" /\ episode.owed) => last_message # watch.text
    /\ OwedTextAgain =>
         /\ iter_last_message # watch.text
         /\ Attempts(watch.text) = 1

\* C17 witness: a status text whose send had raised is sent again, and
\* delivered, after an iteration with another status text.
C17_Witness ==
    /\ OwedTextAgain
    /\ watch.kind = "status"
    /\ episode.len = 0
    /\ attempts = <<[text |-> watch.text, ok |-> TRUE]>>

TypeOK ==
    /\ pc \in {"check_tokens", "get_api_answer", "check_response",
               "parse_status", "send_message", "advance", "except_telegram",
               "except", "send_error", "sleep", "exit"}
    /\ Len(attempts) <= 2

====
